---- MODULE Spec2Model ----
(***************************************************************************)
(* Model of the events page of the catalog                                 *)
(* (packages/eventcatalog/pages/events.tsx): the Page component's state,   *)
(* its handlers, its recomputation effect and its debounced search input.  *)
(*                                                                         *)
(* Strings are sequences of one-character strings, so that toLowerCase and *)
(* includes are computed character by character.  An array of events is a  *)
(* sequence of indices into the `events` prop (each element of the array   *)
(* is a reference to one of the objects of `events`), together with a tag  *)
(* telling whether the array IS the `events` prop or a fresh array built   *)
(* by Array.prototype.filter: React compares state and hook dependencies   *)
(* by reference.                                                           *)
(***************************************************************************)
EXTENDS Integers, Sequences, FiniteSets, TLC

VARIABLES
    events,               \* prop `events` (line 29)
    selectedFilters,      \* useState, line 51
    showMermaidDiagrams,  \* useState, line 52
    eventsToRender,       \* useState, line 53
    searchFilter,         \* useState, line 54
    inputText,            \* value of the uncontrolled <input id="event"> (lines 183-189)
    domChecked,           \* the uncontrolled checkboxes that are checked (lines 205-213, 234-240)
    effectPending,        \* the effect of lines 100-103 is scheduled and has not run yet
    timers,               \* remaining ticks of the pending debounce timers, earliest first
    currentArmed,         \* the last timer belongs to the debounced function bound to onChange
    sinceKey,             \* ticks since the last keystroke, saturating at WaitTicks
    keystrokesLeft        \* keystrokes the user will still type

vars == <<events, selectedFilters, showMermaidDiagrams, eventsToRender, searchFilter,
          inputText, domChecked, effectPending, timers, currentArmed, sinceKey,
          keystrokesLeft>>

(***************************************************************************)
(* Bounds of the model.                                                    *)
(***************************************************************************)
\* longest event list given to the page
MaxEvents == 2
\* longest search text
MaxTextLen == 2
\* keystrokes typed in one behaviour
MaxKeystrokes == 3
\* clock ticks the 500 ms window of the debounce (line 109) is divided into
WaitTicks == 2

(***************************************************************************)
(* The inputs.                                                             *)
(***************************************************************************)
Alphabet == {"o", "O", "s"}
Services == {"s1", "s2"}
Domains == {"d1", "d2"}
Names == {<<"s", "O">>, <<"o">>}

\* an event made by a service and an event two services listen to
Produced == [producerNames |-> <<"s2">>, consumerNames |-> <<>>]
Consumed == [producerNames |-> <<>>, consumerNames |-> <<"s1", "s2">>]

\* the domain and the producer and consumer lists of an event
Placements ==
    { [domain |-> "d1", roles |-> Produced],
      [domain |-> "d2", roles |-> Produced],
      [domain |-> "d2", roles |-> Consumed] }

EventPool ==
    { [name |-> n, domain |-> p.domain, producerNames |-> p.roles.producerNames,
       consumerNames |-> p.roles.consumerNames] : n \in Names, p \in Placements }

SeqsUpTo(S, n) == UNION { [1..k -> S] : k \in 0..n }

EventLists == SeqsUpTo(EventPool, MaxEvents)

SearchTexts == SeqsUpTo(Alphabet, MaxTextLen)

Range(s) == { s[i] : i \in DOMAIN s }

\* a list of selected values never holds a value twice: a value is appended
\* when its box becomes checked and removed when it becomes unchecked
Selections(S) == { s \in SeqsUpTo(S, Cardinality(S)) : Cardinality(Range(s)) = Len(s) }

(***************************************************************************)
(* JavaScript library functions, computed as the library computes them.    *)
(***************************************************************************)
toLowerCaseChar(c) == IF c = "O" THEN "o" ELSE IF c = "S" THEN "s" ELSE c

toLowerCase(s) == [i \in 1..Len(s) |-> toLowerCaseChar(s[i])]

\* String.prototype.includes: t occurs in s at some offset
includes(s, t) == \E off \in 0..(Len(s) - Len(t)) : SubSeq(s, off + 1, off + Len(t)) = t

\* Array.prototype.indexOf: the first 0-based position of v, or -1
indexOf(arr, v) ==
    IF \E i \in 1..Len(arr) : arr[i] = v
    THEN (CHOOSE i \in 1..Len(arr) : arr[i] = v /\ \A j \in 1..(i - 1) : arr[j] # v) - 1
    ELSE -1

\* Array.prototype.some; the callback is given by the set of the elements it accepts
some(arr, accepted) == \E i \in 1..Len(arr) : arr[i] \in accepted

\* Array.prototype.filter: the elements the callback accepts, in their order
filter(arr, accepted) == SelectSeq(arr, LAMBDA x : x \in accepted)

\* Array.prototype.concat
concat(arr, more) == arr \o more

\* JavaScript truthiness: an array is always truthy, a string unless it is empty
truthyArray(a) == TRUE
truthyString(s) == s # <<>>

(***************************************************************************)
(* getFilteredEvents, lines 68-98.                                         *)
(***************************************************************************)
\* the `events` prop as an array value
eventsRef(evs) == [ref |-> "events", items |-> [i \in 1..Len(evs) |-> i]]

\* serviceFiltered without the test of line 73
serviceFiltered_unguarded(evs, fe, sf) ==
    LET serviceFilters == sf.services
        hasConsumersFromFilters(i) ==
            some(evs[i].consumerNames, { consumerId \in Range(evs[i].consumerNames) : indexOf(serviceFilters, consumerId) > -1 })
        hasProducersFromFilters(i) ==
            some(evs[i].producerNames, { producerId \in Range(evs[i].producerNames) : indexOf(serviceFilters, producerId) > -1 })
    IN  [ref |-> "filtered",
         items |-> filter(fe.items, { i \in Range(fe.items) : hasConsumersFromFilters(i) \/ hasProducersFromFilters(i) })]

\* serviceFiltered with && for the || of line 81
serviceFiltered_both(evs, fe, sf) ==
    IF Len(sf.services) > 0
    THEN LET serviceFilters == sf.services
             hasConsumersFromFilters(i) ==
                 some(evs[i].consumerNames, { consumerId \in Range(evs[i].consumerNames) : indexOf(serviceFilters, consumerId) > -1 })
             hasProducersFromFilters(i) ==
                 some(evs[i].producerNames, { producerId \in Range(evs[i].producerNames) : indexOf(serviceFilters, producerId) > -1 })
         IN  [ref |-> "filtered",
              items |-> filter(fe.items, { i \in Range(fe.items) : hasConsumersFromFilters(i) /\ hasProducersFromFilters(i) })]
    ELSE fe

\* lines 73-83
serviceFiltered(evs, fe, sf) ==
    IF Len(sf.services) > 0
    THEN LET serviceFilters == sf.services
             hasConsumersFromFilters(i) ==
                 some(evs[i].consumerNames, { consumerId \in Range(evs[i].consumerNames) : indexOf(serviceFilters, consumerId) > -1 })
             hasProducersFromFilters(i) ==
                 some(evs[i].producerNames, { producerId \in Range(evs[i].producerNames) : indexOf(serviceFilters, producerId) > -1 })
         IN  [ref |-> "filtered",
              items |-> filter(fe.items, { i \in Range(fe.items) : hasConsumersFromFilters(i) \/ hasProducersFromFilters(i) })]
    ELSE fe

\* domainFiltered filtering `events` instead of filteredEvents in line 87
domainFiltered_fromAll(evs, fe, sf) ==
    IF Len(sf.domains) > 0
    THEN LET domainFilters == sf.domains
         IN  [ref |-> "filtered",
              items |-> filter(eventsRef(evs).items, { i \in Range(eventsRef(evs).items) : indexOf(domainFilters, evs[i].domain) > -1 })]
    ELSE fe

\* domainFiltered with > 0 for the > -1 of line 89
domainFiltered_offByOne(evs, fe, sf) ==
    IF Len(sf.domains) > 0
    THEN LET domainFilters == sf.domains
         IN  [ref |-> "filtered",
              items |-> filter(fe.items, { i \in Range(fe.items) : indexOf(domainFilters, evs[i].domain) > 0 })]
    ELSE fe

\* lines 85-91
domainFiltered(evs, fe, sf) ==
    IF Len(sf.domains) > 0
    THEN LET domainFilters == sf.domains
         IN  [ref |-> "filtered",
              items |-> filter(fe.items, { i \in Range(fe.items) : indexOf(domainFilters, evs[i].domain) > -1 })]
    ELSE fe

\* searchFiltered without the toLowerCase of the event's name in line 94
searchFiltered_caseSensitive(evs, fe, text) ==
    IF truthyString(text)
    THEN [ref |-> "filtered",
          items |-> filter(fe.items, { i \in Range(fe.items) : includes(evs[i].name, toLowerCase(text)) })]
    ELSE fe

\* lines 93-95
searchFiltered(evs, fe, text) ==
    IF truthyString(text)
    THEN [ref |-> "filtered",
          items |-> filter(fe.items, { i \in Range(fe.items) : includes(toLowerCase(evs[i].name), toLowerCase(text)) })]
    ELSE fe

getFilteredEvents(evs, sf, text) ==
    IF ~truthyArray(sf.services) /\ ~truthyString(text) /\ ~truthyArray(sf.domains)
    THEN eventsRef(evs)
    ELSE searchFiltered(evs, domainFiltered(evs, serviceFiltered(evs, eventsRef(evs), sf), sf), text)

(***************************************************************************)
(* handleFilterSelection, lines 56-66: the new value of selectedFilters.   *)
(***************************************************************************)
\* handleFilterSelection replacing the list by the value checked in line 60
handleFilterSelection_replace(sf, type, value, checked) ==
    IF checked
    THEN [sf EXCEPT ![type] = <<value>>]
    ELSE [sf EXCEPT ![type] = filter(sf[type], { v \in Range(sf[type]) : v # value })]

handleFilterSelection(sf, type, value, checked) ==
    IF checked
    THEN [sf EXCEPT ![type] = concat(sf[type], <<value>>)]
    ELSE [sf EXCEPT ![type] = filter(sf[type], { v \in Range(sf[type]) : v # value })]

\* filtersApplied counting the selected domains as well
filtersApplied_withDomains(sf, text) ==
    truthyString(text) \/ Len(sf.services) > 0 \/ Len(sf.domains) > 0

\* line 113
filtersApplied(sf, text) == truthyString(text) \/ Len(sf.services) > 0

\* the heading of lines 252-256
heading(evs, etr, sf, text) ==
    IF filtersApplied(sf, text)
    THEN <<"Filtered Events", Len(etr.items), Len(evs)>>
    ELSE <<"All Events", Len(evs)>>

(***************************************************************************)
(* The page.                                                               *)
(***************************************************************************)
TypeOK ==
    /\ events \in EventLists
    /\ selectedFilters \in [services : Selections(Services), domains : Selections(Domains)]
    /\ showMermaidDiagrams \in BOOLEAN
    /\ eventsToRender.ref \in {"events", "filtered"}
    /\ searchFilter \in SearchTexts
    /\ inputText \in SearchTexts
    /\ effectPending \in BOOLEAN
    /\ currentArmed \in BOOLEAN
    /\ sinceKey \in 0..WaitTicks
    /\ keystrokesLeft \in 0..MaxKeystrokes

\* the state after the first render: lines 51-54, the effect of line 100 scheduled
Mounted ==
    /\ selectedFilters = [services |-> <<>>, domains |-> <<>>]
    /\ showMermaidDiagrams = FALSE
    /\ eventsToRender = eventsRef(events)
    /\ searchFilter = <<>>
    /\ inputText = <<>>
    /\ domChecked = {}
    /\ effectPending = TRUE
    /\ timers = <<>>
    /\ currentArmed = FALSE
    /\ sinceKey = WaitTicks
    /\ keystrokesLeft = MaxKeystrokes

\* the catalogs the page is mounted with
Catalogs ==
    { <<[name |-> <<"s", "O">>, domain |-> "d1", producerNames |-> <<"s2">>, consumerNames |-> <<>>],
        [name |-> <<"o">>, domain |-> "d2", producerNames |-> <<>>, consumerNames |-> <<"s1", "s2">>]>>,
      <<[name |-> <<"o">>, domain |-> "d2", producerNames |-> <<"s2">>, consumerNames |-> <<>>],
        [name |-> <<"s", "O">>, domain |-> "d2", producerNames |-> <<>>, consumerNames |-> <<"s1", "s2">>]>> }

Init ==
    /\ events \in Catalogs
    /\ Mounted

\* the effect of lines 100-103; a state set to the reference it already holds
\* renders nothing, any other reference re-renders and, eventsToRender being
\* the dependency of useCallback (line 110), binds a new debounced function
RunEffect ==
    /\ effectPending
    /\ LET result == getFilteredEvents(events, selectedFilters, searchFilter)
           same == result.ref = "events" /\ eventsToRender.ref = "events"
       IN  /\ eventsToRender' = result
           /\ currentArmed' = IF same THEN currentArmed ELSE FALSE
    /\ effectPending' = FALSE
    /\ UNCHANGED <<events, selectedFilters, showMermaidDiagrams, searchFilter, inputText,
                   domChecked, timers, sinceKey, keystrokesLeft>>

\* onChange of a service or domain checkbox, line 210: the click flips the
\* box, event.target.checked is its new state, and setSelectedFilters is
\* given a new object, so the component renders again and the effect is scheduled
ToggleFilter(type, value) ==
    /\ ~effectPending
    /\ LET checked == <<type, value>> \notin domChecked
       IN  /\ selectedFilters' = handleFilterSelection(selectedFilters, type, value, checked)
           /\ domChecked' = IF checked THEN domChecked \cup {<<type, value>>}
                                       ELSE domChecked \ {<<type, value>>}
    /\ effectPending' = TRUE
    /\ UNCHANGED <<events, showMermaidDiagrams, eventsToRender, searchFilter, inputText,
                   timers, currentArmed, sinceKey, keystrokesLeft>>

\* onChange of the "show-mermaid" checkbox, line 237: neither dependency of
\* the effect (line 103) nor of useCallback (line 110) changes
ToggleMermaid ==
    /\ ~effectPending
    /\ LET checked == <<"features", "show-mermaid">> \notin domChecked
       IN  /\ showMermaidDiagrams' = checked
           /\ domChecked' = IF checked THEN domChecked \cup {<<"features", "show-mermaid">>}
                                       ELSE domChecked \ {<<"features", "show-mermaid">>}
    /\ UNCHANGED <<events, selectedFilters, eventsToRender, searchFilter, inputText,
                   effectPending, timers, currentArmed, sinceKey, keystrokesLeft>>

\* the texts the user types into the search box
TypedTexts == {<<>>, <<"o">>, <<"s", "O">>} \cap SearchTexts

\* debouncedFilter clearing its timer without starting it again
debouncedFilter_cancelOnly ==
    /\ timers' = IF currentArmed
                 THEN SubSeq(timers, 1, Len(timers) - 1)
                 ELSE Append(timers, WaitTicks)
    /\ currentArmed' = ~currentArmed

\* the debounced function bound to onChange is called (lines 106-111, 187):
\* it restarts its own timer when it has one, and starts one otherwise;
\* timers of debounced functions no longer bound to onChange keep running
debouncedFilter ==
    /\ timers' = IF currentArmed
                 THEN [timers EXCEPT ![Len(timers)] = WaitTicks]
                 ELSE Append(timers, WaitTicks)
    /\ currentArmed' = TRUE

\* onChange of the search box, line 187
Keystroke(text) ==
    /\ ~effectPending
    /\ keystrokesLeft > 0
    /\ text # inputText
    /\ inputText' = text
    /\ debouncedFilter
    /\ sinceKey' = 0
    /\ keystrokesLeft' = keystrokesLeft - 1
    /\ UNCHANGED <<events, selectedFilters, showMermaidDiagrams, eventsToRender, searchFilter,
                   domChecked, effectPending>>

\* e.target.value at the time the debounced callback runs (line 108): e.target
\* is the input element, whose value is the text it holds then
targetValue == inputText

\* FireTimer when searchFilter is no dependency of the effect (line 103)
FireTimer_noEffect ==
    /\ ~effectPending
    /\ timers # <<>>
    /\ Head(timers) = 0
    /\ searchFilter' = targetValue
    /\ timers' = Tail(timers)
    /\ currentArmed' = IF Len(timers) = 1 THEN FALSE ELSE currentArmed
    /\ UNCHANGED <<events, selectedFilters, showMermaidDiagrams, eventsToRender, inputText,
                   domChecked, sinceKey, keystrokesLeft, effectPending>>

\* the earliest timer expires and its callback runs, lines 107-109; setting
\* the state to the value it holds renders nothing
FireTimer ==
    /\ ~effectPending
    /\ timers # <<>>
    /\ Head(timers) = 0
    /\ searchFilter' = targetValue
    /\ effectPending' = (targetValue # searchFilter)
    /\ timers' = Tail(timers)
    /\ currentArmed' = IF Len(timers) = 1 THEN FALSE ELSE currentArmed
    /\ UNCHANGED <<events, selectedFilters, showMermaidDiagrams, eventsToRender, inputText,
                   domChecked, sinceKey, keystrokesLeft>>

\* time passes; a timer that is due runs before the clock moves on
Tick ==
    /\ ~effectPending
    /\ timers # <<>> \/ sinceKey < WaitTicks
    /\ \A i \in 1..Len(timers) : timers[i] > 0
    /\ timers' = [i \in 1..Len(timers) |-> timers[i] - 1]
    /\ sinceKey' = IF sinceKey < WaitTicks THEN sinceKey + 1 ELSE sinceKey
    /\ UNCHANGED <<events, selectedFilters, showMermaidDiagrams, eventsToRender, searchFilter,
                   inputText, domChecked, effectPending, currentArmed, keystrokesLeft>>

Next ==
    \/ RunEffect
    \/ \E value \in Services : ToggleFilter("services", value)
    \/ \E value \in Domains : ToggleFilter("domains", value)
    \/ ToggleMermaid
    \/ \E text \in TypedTexts : Keystroke(text)
    \/ FireTimer
    \/ Tick

Spec == Init /\ [][Next]_vars

\* A scheduled effect runs, a due timer expires and time passes.  Fairness is
\* strong for the timer and the clock: both wait while an effect is pending,
\* and no sequence of checkbox toggles holds the clock back for ever.
LiveSpec == Spec /\ WF_vars(RunEffect) /\ SF_vars(FireTimer) /\ SF_vars(Tick)

(***************************************************************************)
(* The filter on its own: any event list, any filter state, the effect     *)
(* about to compute the events to render.                                  *)
(***************************************************************************)
FilterInit ==
    /\ events \in EventLists
    /\ selectedFilters \in [services : Selections(Services), domains : Selections(Domains)]
    /\ searchFilter \in SearchTexts
    /\ inputText = searchFilter
    /\ domChecked = { <<"services", v>> : v \in Range(selectedFilters.services) }
                    \cup { <<"domains", v>> : v \in Range(selectedFilters.domains) }
    /\ showMermaidDiagrams = FALSE
    /\ eventsToRender = eventsRef(events)
    /\ effectPending = TRUE
    /\ timers = <<>>
    /\ currentArmed = FALSE
    /\ sinceKey = WaitTicks
    /\ keystrokesLeft = 0

FilterNext == RunEffect

FilterSpec == FilterInit /\ [][FilterNext]_vars

(***************************************************************************)
(* Properties.                                                             *)
(***************************************************************************)
\* what getFilteredEvents returns in the current state
result == getFilteredEvents(events, selectedFilters, searchFilter).items

noFilters == [services |-> <<>>, domains |-> <<>>]

\* the result of each filter taken alone
servicesAlone == getFilteredEvents(events, [noFilters EXCEPT !.services = selectedFilters.services], <<>>).items
domainsAlone == getFilteredEvents(events, [noFilters EXCEPT !.domains = selectedFilters.domains], <<>>).items
textAlone == getFilteredEvents(events, noFilters, searchFilter).items

\* the positions are strictly increasing: the events are in the order of `events`, none twice
inOrder(items) == \A i, j \in 1..Len(items) : i < j => items[i] < items[j]

\* C1: the result holds exactly the events that are in the result of the
\* service filter alone, of the domain filter alone and of the text filter
\* alone, in the order they have in the event list.
C1_FiltersCompose ==
    /\ Range(result) = Range(servicesAlone) \cap Range(domainsAlone) \cap Range(textAlone)
    /\ inOrder(result)

\* all three filters are active, each removes an event the others keep or
\* keeps one, and the effect has stored a result that is neither empty nor everything
C1_Witness ==
    /\ ~effectPending
    /\ Len(selectedFilters.services) > 0 /\ Len(selectedFilters.domains) > 0 /\ searchFilter # <<>>
    /\ eventsToRender.items # <<>>
    /\ Len(events) = MaxEvents
    /\ Len(eventsToRender.items) < Len(events)
    /\ Range(servicesAlone) # Range(domainsAlone)

\* C2: with no service selected, no domain selected and an empty search text
\* the result is the whole event list in its order.
C2_Identity ==
    (selectedFilters = noFilters /\ searchFilter = <<>>)
        => result = [i \in 1..Len(events) |-> i]

C2_Witness ==
    /\ ~effectPending
    /\ selectedFilters = noFilters /\ searchFilter = <<>>
    /\ Len(events) = MaxEvents
    /\ eventsToRender.items = [i \in 1..Len(events) |-> i]

\* the services an event is produced or consumed by
servicesOf(e) == Range(e.producerNames) \cup Range(e.consumerNames)

\* C3: with services selected and nothing else, an event is in the result
\* if and only if one of its producers or consumers is a selected service.
C3_ServiceFilter ==
    (Len(selectedFilters.services) > 0 /\ selectedFilters.domains = <<>> /\ searchFilter = <<>>)
        => \A i \in 1..Len(events) :
               i \in Range(result) <=> servicesOf(events[i]) \cap Range(selectedFilters.services) # {}

\* one event is kept because of a consumer only, another is dropped
C3_Witness ==
    /\ ~effectPending
    /\ Len(selectedFilters.services) > 0 /\ selectedFilters.domains = <<>> /\ searchFilter = <<>>
    /\ \E i \in Range(eventsToRender.items) :
           /\ Range(events[i].producerNames) \cap Range(selectedFilters.services) = {}
           /\ Range(events[i].consumerNames) \cap Range(selectedFilters.services) # {}
    /\ \E i \in 1..Len(events) : i \notin Range(eventsToRender.items)

\* C4: with domains selected and nothing else, the result holds exactly the
\* events whose domain is selected.
C4_DomainFilter ==
    (Len(selectedFilters.domains) > 0 /\ selectedFilters.services = <<>> /\ searchFilter = <<>>)
        => Range(result) = { i \in 1..Len(events) : events[i].domain \in Range(selectedFilters.domains) }

C4_Witness ==
    /\ ~effectPending
    /\ Len(selectedFilters.domains) > 0 /\ selectedFilters.services = <<>> /\ searchFilter = <<>>
    /\ eventsToRender.items # <<>>
    /\ \E i \in 1..Len(events) : i \notin Range(eventsToRender.items)

\* C5: the heading says "All Events (total)" exactly when no service is
\* selected and the search text is empty, whatever domains are selected, and
\* "Filtered Events (shown/total)" as soon as a service is selected or a
\* search text is set.
C5_FiltersAppliedFlag ==
    LET h == heading(events, eventsToRender, selectedFilters, searchFilter)
    IN  /\ (selectedFilters.services = <<>> /\ searchFilter = <<>>)
               => h = <<"All Events", Len(events)>>
        /\ (selectedFilters.services # <<>> \/ searchFilter # <<>>)
               => h = <<"Filtered Events", Len(eventsToRender.items), Len(events)>>

\* only a domain is selected and the grid is narrowed
C5_Witness ==
    /\ ~effectPending
    /\ selectedFilters.services = <<>> /\ searchFilter = <<>>
    /\ Len(selectedFilters.domains) > 0
    /\ Len(eventsToRender.items) < Len(events)

otherType(type) == IF type = "services" THEN "domains" ELSE "services"

valuesOf(type) == IF type = "services" THEN Services ELSE Domains

\* C6: checking a box that is unchecked and unchecking it again gives back
\* the selected list of its dimension, has left the other dimension's list
\* alone at both steps, and gives back the result of the filter.
C6_ToggleRoundTrip ==
    \A type \in {"services", "domains"} : \A value \in valuesOf(type) :
        <<type, value>> \notin domChecked =>
            LET on == handleFilterSelection(selectedFilters, type, value, TRUE)
                off == handleFilterSelection(on, type, value, FALSE)
            IN  /\ off[type] = selectedFilters[type]
                /\ on[otherType(type)] = selectedFilters[otherType(type)]
                /\ off[otherType(type)] = selectedFilters[otherType(type)]
                /\ getFilteredEvents(events, off, searchFilter)
                       = getFilteredEvents(events, selectedFilters, searchFilter)

\* a box was checked and unchecked again while another one stays checked
C6_Witness ==
    /\ ~effectPending
    /\ Len(selectedFilters.services) = 1
    /\ Len(selectedFilters.domains) = 1
    /\ searchFilter # <<>>
    /\ eventsToRender.ref = "filtered"

\* C7: once the user has stopped typing, the search filter becomes the text
\* of the search box and stays equal to it.
C7_DebounceLiveness == <>[](searchFilter = inputText)

\* typing is over, no timer is left and the filter holds the text typed last
C7_Witness ==
    /\ keystrokesLeft = 0
    /\ timers = <<>>
    /\ ~effectPending
    /\ searchFilter = inputText
    /\ searchFilter # <<>>
    /\ domChecked # {}

\* C8: at most one timer is pending at any time, and a timer expires only
\* when the whole window has passed since the last keystroke.
C8_SinglePendingTimer ==
    /\ [](Len(timers) <= 1)
    /\ [][Len(timers') < Len(timers) => sinceKey = WaitTicks]_vars

\* two letters differ at most in case
sameLetter(a, b) == a = b \/ {a, b} \in {{"o", "O"}, {"s", "S"}}

\* the search texts that differ from s at most in the case of their letters
RECURSIVE caseVariants(_)
caseVariants(s) ==
    IF s = <<>>
    THEN {<<>>}
    ELSE { <<c>> \o rest : c \in { x \in Alphabet : sameLetter(x, Head(s)) },
                           rest \in caseVariants(Tail(s)) }

\* t occurs in the name at some offset, case aside
occursIn(name, t) ==
    \E off \in 0..(Len(name) - Len(t)) : \A k \in 1..Len(t) : sameLetter(name[off + k], t[k])

\* C9: with a search text, the result holds exactly the events that pass the
\* service and domain filters and whose name contains the text, case aside;
\* a search text that differs only in case gives the same result.
C9_CaseInsensitiveSearch ==
    searchFilter # <<>> =>
        /\ Range(result) = { i \in Range(getFilteredEvents(events, selectedFilters, <<>>).items) :
                                 occursIn(events[i].name, searchFilter) }
        /\ \A t \in caseVariants(searchFilter) :
               getFilteredEvents(events, selectedFilters, t).items = result

\* an upper-case letter of the text is matched by a lower-case letter of a
\* name kept, and another event is dropped
C9_Witness ==
    /\ ~effectPending
    /\ searchFilter = <<"O">>
    /\ \E i \in Range(eventsToRender.items) : events[i].name = <<"o">>
    /\ \E i \in Range(eventsToRender.items) : events[i].name = <<"s", "O">>
    /\ Len(eventsToRender.items) = MaxEvents

\* C10: whenever no effect is pending the events to render are the result
\* of the filter for the current selected filters and search filter, and a
\* step that changes the diagram flag changes neither the events to render
\* nor schedules the effect.
C10_RenderedInSync ==
    /\ [](~effectPending => eventsToRender.items = result)
    /\ [][showMermaidDiagrams' # showMermaidDiagrams
             => eventsToRender' = eventsToRender /\ effectPending' = effectPending]_vars

C10_Witness ==
    /\ ~effectPending
    /\ showMermaidDiagrams
    /\ searchFilter # <<>>
    /\ Len(selectedFilters.services) > 0
    /\ eventsToRender.ref = "filtered"
    /\ Len(eventsToRender.items) = 1

====
